---- MODULE Spec2Model ----
(***************************************************************************)
(* The wildcard event dispatcher of src/src/events.js: the pattern trie    *)
(* (EventEntry), registration and removal (on, once, off,                  *)
(* removeAllListeners) and the three emission modes (emit,                 *)
(* emitAsyncSequential, emitAsync) over the shared walk _emit.             *)
(*                                                                         *)
(* An event name or pattern is a string, modelled as its sequence of       *)
(* characters; Split is String.prototype.split on the delimiter.  A trie   *)
(* is a function from the paths of its existing nodes to their two         *)
(* buckets; a path element is a literal child key or the wildcard child    *)
(* (_all).  A handler is a record: a plain function (k = "fn") or the      *)
(* closure `process` that once() builds (k = "once").                     *)
(***************************************************************************)
EXTENDS Integers, Sequences, FiniteSets, TLC

\* Bounds of the model.
MaxRegs == 3
MaxOnce == 2
MaxEm == 2

\* Constructor defaults, events.js line 68.
delimiter == "."
wildcard == "*"
\* `${wildcard}${wildcard}`, events.js line 72.
doubleWild == <<wildcard, wildcard>>

(***************************************************************************)
(* Strings                                                                 *)
(***************************************************************************)
RECURSIVE SplitFrom(_, _)
\* name.split(delimiter): cur is the segment being read.
SplitFrom(s, cur) ==
    IF s = <<>> THEN <<cur>>
    ELSE IF Head(s) = delimiter
         THEN <<cur>> \o SplitFrom(Tail(s), <<>>)
         ELSE SplitFrom(Tail(s), Append(cur, Head(s)))

Split(name) == SplitFrom(name, <<>>)

(***************************************************************************)
(* Handlers                                                                *)
(***************************************************************************)
\* A plain handler function, identified by reference (id).
Fn(i) == [k |-> "fn", id |-> i, w |-> 0, names |-> <<>>]

\* The closure `process` of once(name, handler): w is the closure's identity,
\* names the `name` argument it was built for, id the wrapped handler.
OnceProcess(serial, names, i) == [k |-> "once", id |-> i, w |-> serial, names |-> names]

\* A plain handler function that throws when it is invoked.
Thrower(i) == [k |-> "throw", id |-> i, w |-> 0, names |-> <<>>]

\* A plain handler function that calls removeAllListeners() of the
\* dispatcher when it is invoked.
Clearer(i) == [k |-> "clear", id |-> i, w |-> 0, names |-> <<>>]

\* The value `undefined` passed (or left out) as a handler.
Undefined == [k |-> "undefined", id |-> 0, w |-> 0, names |-> <<>>]

Count(seq, x) == Cardinality({i \in DOMAIN seq : seq[i] = x})

\* Array.prototype.indexOf followed by splice(idx, 1); the array is left alone
\* when indexOf gives -1.
RemoveFirst(seq, x) ==
    IF \E i \in DOMAIN seq : seq[i] = x
    THEN LET idx == CHOOSE i \in DOMAIN seq :
                        seq[i] = x /\ \A j \in 1..(i - 1) : seq[j] # x
         IN SubSeq(seq, 1, idx - 1) \o SubSeq(seq, idx + 1, Len(seq))
    ELSE seq

(***************************************************************************)
(* The trie                                                                *)
(***************************************************************************)
\* new EventEntry(): no children, no handlers, no allBelow.
EventEntry == [handlers |-> <<>>, allBelow |-> <<>>]

\* The trie of one fresh root.
NewTrie == (<<>> :> EventEntry)

\* Path elements: children[key], and the wildcard child _all.
ChildKey(key) == [all |-> FALSE, key |-> key]
AllKey == [all |-> TRUE, key |-> <<>>]

\* scan is a node of trie t (a reference that is not undefined).
Exists(t, scan) == scan \in DOMAIN t

\* The node at path, created empty when missing.
Ensure(t, path) == IF path \in DOMAIN t THEN t ELSE t @@ (path :> EventEntry)

\* getChild(key): the child, created when missing.
getChild(t, scan, key) == Ensure(t, Append(scan, ChildKey(key)))

\* getAll(): the wildcard child, created when missing.
getAll(t, scan) == Ensure(t, Append(scan, AllKey))

RECURSIVE TotalOver(_, _)
TotalOver(t, S) ==
    IF S = {} THEN 0
    ELSE LET p == CHOOSE x \in S : TRUE
         IN Len(t[p].handlers) + Len(t[p].allBelow) + TotalOver(t, S \ {p})

\* The number of handler references the trie holds, over all buckets.
Total(t) == TotalOver(t, DOMAIN t)

(***************************************************************************)
(* Registration                                                            *)
(***************************************************************************)
\* Lines 110-113: the handler is pushed on the node's handlers bucket.
PushHandler(t, scan, handler) == [t EXCEPT ![scan].handlers = Append(@, handler)]

\* Line 102: the handler is pushed on the node's allBelow bucket.
PushBelow(t, scan, handler) == [t EXCEPT ![scan].allBelow = Append(@, handler)]

RECURSIVE OnWalkTerminal(_, _, _, _, _)
\* Mutant of OnWalk: the doubleWild branch returns after its push.
OnWalkTerminal(t, scan, parts, i, handler) ==
    IF i > Len(parts) THEN PushHandler(t, scan, handler)
    ELSE IF parts[i] = <<wildcard>>
         THEN OnWalkTerminal(getAll(t, scan), Append(scan, AllKey), parts, i + 1, handler)
    ELSE IF parts[i] = doubleWild
         THEN PushBelow(t, scan, handler)
    ELSE OnWalkTerminal(getChild(t, scan, parts[i]), Append(scan, ChildKey(parts[i])),
                        parts, i + 1, handler)

RECURSIVE OnWalk(_, _, _, _, _)
\* The loop of on() from part i, and the push that follows it.  The
\* doubleWild branch pushes on allBelow and goes on with the next part:
\* there is no return in it, so the push of lines 110-113 follows too.
OnWalk(t, scan, parts, i, handler) ==
    IF i > Len(parts) THEN PushHandler(t, scan, handler)
    ELSE IF parts[i] = <<wildcard>>
         THEN OnWalk(getAll(t, scan), Append(scan, AllKey), parts, i + 1, handler)
    ELSE IF parts[i] = doubleWild
         THEN OnWalk(PushBelow(t, scan, handler), scan, parts, i + 1, handler)
    ELSE OnWalk(getChild(t, scan, parts[i]), Append(scan, ChildKey(parts[i])),
                parts, i + 1, handler)

\* on(name, handler) for a string name.
OnName(t, name, handler) == OnWalk(t, <<>>, Split(name), 1, handler)

RECURSIVE OnNames(_, _, _)
OnNames(t, names, handler) ==
    IF names = <<>> THEN t
    ELSE OnNames(OnName(t, Head(names), handler), Tail(names), handler)

\* on(name, handler).  names is the list of patterns: a string argument is
\* the list of that one string (the Array branch calls on() per element).
on(t, names, handler) ==
    IF handler = Undefined THEN t ELSE OnNames(t, names, handler)

(***************************************************************************)
(* Removal                                                                 *)
(***************************************************************************)
\* Lines 164-171: the doubleWild case of off().
OffBelow(t, scan, handler) ==
    IF handler = Undefined
    THEN [t EXCEPT ![scan].allBelow = <<>>]
    ELSE [t EXCEPT ![scan].allBelow = RemoveFirst(@, handler)]

\* Mutant of OffHandlers: every reference to the handler is removed, not the
\* first one only.
OffHandlersEvery(t, scan, handler) ==
    [t EXCEPT ![scan].handlers =
        IF handler # Undefined
        THEN SelectSeq(@, LAMBDA x : x # handler) ELSE <<>>]

\* Lines 179-185: the bucket of the node the walk ended on.
OffHandlers(t, scan, handler) ==
    IF handler # Undefined
    THEN [t EXCEPT ![scan].handlers = RemoveFirst(@, handler)]
    ELSE [t EXCEPT ![scan].handlers = <<>>]

RECURSIVE OffWalk(_, _, _, _, _)
\* The loop of off() from part i; a scan that is not a node is undefined.
OffWalk(t, scan, parts, i, handler) ==
    IF ~Exists(t, scan) THEN t
    ELSE IF i > Len(parts) THEN OffHandlers(t, scan, handler)
    ELSE IF parts[i] = <<wildcard>>
         THEN OffWalk(getAll(t, scan), Append(scan, AllKey), parts, i + 1, handler)
    ELSE IF parts[i] = doubleWild
         THEN OffBelow(t, scan, handler)
    ELSE OffWalk(t, Append(scan, ChildKey(parts[i])), parts, i + 1, handler)

OffName(t, name, handler) == OffWalk(t, <<>>, Split(name), 1, handler)

RECURSIVE off(_, _, _)
\* off(name, handler), names as for on.
off(t, names, handler) ==
    IF names = <<>> THEN t
    ELSE off(OffName(t, Head(names), handler), Tail(names), handler)

\* Mutant of removeAllListeners: the buckets of the root are emptied, its
\* children kept.
removeRootListeners(t) == [t EXCEPT ![<<>>] = EventEntry]

\* removeAllListeners(): this._events = new EventEntry().
removeAllListeners(t) == NewTrie

(***************************************************************************)
(* The walk, calling (emit, emitAsync)                                     *)
(*                                                                         *)
(* A walk state ws holds the dispatcher as the walk's handlers change it:  *)
(* heap, the tries that exist, root, the index of this._events in it, and  *)
(* calls, the functions the walk has invoked so far; thrown, whether one   *)
(* of them threw.  The walk reads the nodes of the trie it started on      *)
(* (heap[tr]) as they are at each step.                                    *)
(***************************************************************************)
\* Mutant of Call: an exception of the function is caught and dropped.
CallIsolated(ws, h) ==
    LET ws1 == IF h.k = "once"
               THEN [ws EXCEPT !.heap[ws.root] = off(@, h.names, h)]
               ELSE ws
    IN [ws1 EXCEPT !.calls = Append(@, h)]

\* fn.apply(this, params).  `process` first removes itself, off(name,
\* process), from the dispatcher's current trie, then calls its handler.
\* A function that calls removeAllListeners() gives the dispatcher a new
\* trie; the tries that walks are on stay as they are.
\* Nothing catches what a function throws: the exception leaves the loops
\* of _emit and every _emit on the stack, so no call follows it.
Call(ws, h) ==
    IF ws.thrown THEN ws
    ELSE LET ws1 == IF h.k = "once"
                    THEN [ws EXCEPT !.heap[ws.root] = off(@, h.names, h)]
                    ELSE IF h.k = "clear"
                    THEN [ws EXCEPT !.heap = Append(@, removeAllListeners(ws.heap[ws.root])),
                                    !.root = Len(ws.heap) + 1]
                    ELSE ws
         IN [ws1 EXCEPT !.calls = Append(@, h), !.thrown = (h.k = "throw")]

\* Mutant of CallBelow: the calling walk leaves the allBelow bucket out.
NoCallBelow(ws, tr, scan, i) == ws

RECURSIVE CallBelow(_, _, _, _)
\* Lines 252-257: for (--i; i >= 0; i--) over the live allBelow array;
\* i here is the 1-based index of the element read next.
CallBelow(ws, tr, scan, i) ==
    IF i < 1 THEN ws
    ELSE LET allBelow == ws.heap[tr][scan].allBelow
             ws1 == IF i <= Len(allBelow) THEN Call(ws, allBelow[i]) ELSE ws
         IN CallBelow(ws1, tr, scan, i - 1)

RECURSIVE CallHandlersCurrent(_, _, _, _, _)
\* Mutant of CallHandlers: the bucket is read from the dispatcher's current
\* trie, not from the node the walk holds.
CallHandlersCurrent(ws, tr, scan, i, l) ==
    IF i > l THEN ws
    ELSE LET t == ws.heap[ws.root]
             currentHandlers == IF Exists(t, scan) THEN t[scan].handlers ELSE <<>>
             ws1 == IF i <= Len(currentHandlers)
                    THEN Call(ws, currentHandlers[i]) ELSE ws
         IN CallHandlersCurrent(ws1, tr, scan, i + 1, l)

RECURSIVE CallHandlers(_, _, _, _, _)
\* Lines 273-276: for (i = 0, l = length; i < l; i++) over the live
\* handlers array, l read once before the loop.
CallHandlers(ws, tr, scan, i, l) ==
    IF i > l THEN ws
    ELSE LET currentHandlers == ws.heap[tr][scan].handlers
             ws1 == IF i <= Len(currentHandlers)
                    THEN Call(ws, currentHandlers[i]) ELSE ws
         IN CallHandlers(ws1, tr, scan, i + 1, l)

\* Mutant of NextIndex: the wildcard child is walked from the same part.
SameIndex(index) == index

\* Lines 259 and 265: the wildcard child is walked from the next part.
NextIndex(index) == index + 1

RECURSIVE EmitCall(_, _, _, _, _)
\* _emit(scan, parts, index, handlers, call) with call given; index is
\* 1-based.
EmitCall(ws, tr, scan, parts, index) ==
    IF ~Exists(ws.heap[tr], scan) THEN ws
    ELSE IF index <= Len(parts)
    THEN LET ws1 == CallBelow(ws, tr, scan, Len(ws.heap[tr][scan].allBelow))
             ws2 == IF Exists(ws1.heap[tr], Append(scan, AllKey))
                    THEN EmitCall(ws1, tr, Append(scan, AllKey), parts, NextIndex(index))
                    ELSE ws1
         IN EmitCall(ws2, tr, Append(scan, ChildKey(parts[index])), parts, index + 1)
    ELSE CallHandlers(ws, tr, scan, 1, Len(ws.heap[tr][scan].handlers))

\* The walk state an emission starts from.
WalkState(t) == [heap |-> <<t>>, root |-> 1, calls |-> <<>>, thrown |-> FALSE]

\* The call-mode walk of an emission of event on the dispatcher whose trie is t.
WalkCalling(t, event) == EmitCall(WalkState(t), 1, <<>>, Split(event), 1)

(***************************************************************************)
(* The walk, collecting (emitAsyncSequential)                              *)
(***************************************************************************)
RECURSIVE EmitCollect(_, _, _, _)
\* _emit(scan, parts, index, handlers) without call: what it pushes on
\* handlers, in order.
EmitCollect(t, scan, parts, index) ==
    IF ~Exists(t, scan) THEN <<>>
    ELSE IF index <= Len(parts)
    THEN t[scan].allBelow
         \o (IF Exists(t, Append(scan, AllKey))
             THEN EmitCollect(t, Append(scan, AllKey), parts, NextIndex(index))
             ELSE <<>>)
         \o EmitCollect(t, Append(scan, ChildKey(parts[index])), parts, index + 1)
    ELSE t[scan].handlers

WalkCollecting(t, event) == EmitCollect(t, <<>>, Split(event), 1)

(***************************************************************************)
(* Names used as inputs                                                    *)
(***************************************************************************)
nA == <<"a">>
nB == <<"b">>
nAB == <<"a", ".", "b">>
nAC == <<"a", ".", "c">>
nABC == <<"a", ".", "b", ".", "c">>
nACC == <<"a", ".", "c", ".", "c">>
nABB == <<"a", ".", "b", ".", "b">>
nBBC == <<"b", ".", "b", ".", "c">>
nABBC == <<"a", ".", "b", ".", "b", ".", "c">>
nAStar == <<"a", ".", "*">>
nAStarC == <<"a", ".", "*", ".", "c">>
nABelow == <<"a", ".", "*", "*">>
nABelowB == <<"a", ".", "*", "*", ".", "b">>
nBelow == <<"*", "*">>

\* Every pattern some specification registers under.
AllPatterns == {nA, nB, nAB, nABC, nAStar, nAStarC, nABelow, nABelowB, nBelow}

\* The plain handler functions of the model.
HandlerIds == {1, 2}
Handlers == {Fn(i) : i \in HandlerIds}

(***************************************************************************)
(* State                                                                   *)
(***************************************************************************)
VARIABLES
    events,   \* this._events: the trie of the dispatcher
    nextW,    \* the identity the next `process` closure of once() gets
    ems,      \* the asynchronous emissions, by slot
    last,     \* the last operation called, with the functions it invoked
    regs,     \* history: per pattern, the handlers registered and not removed
    inv,      \* history: per `process` closure, how often it was invoked
    cleared   \* history: removeAllListeners ran and no on/once since

vars == <<events, nextW, ems, last, regs, inv, cleared>>

Slots == 1..MaxEm
Serials == 1..MaxOnce

\* A slot that holds no emission.
Idle ==
    [mode |-> "idle", list |-> <<>>, started |-> <<>>, ops |-> <<>>,
     st |-> "idle", clean |-> FALSE]

\* The record of an operation: its name, its name/event argument(s), its
\* handler argument, the functions it invoked in order, the slot it ran in,
\* and whether the call threw to its caller.
Op(name, names, h, calls, slot) ==
    [op |-> name, names |-> names, h |-> h, calls |-> calls, slot |-> slot,
     threw |-> FALSE]

\* The emissions still under way: the record of a call that has settled,
\* with everything its handlers returned, is dropped at the next operation.
Done(em) ==
    /\ em.st \in {"resolved", "rejected"}
    /\ \A k \in DOMAIN em.ops : em.ops[k] # "pending"
Live(e) == [s \in Slots |-> IF Done(e[s]) THEN Idle ELSE e[s]]

Init ==
    /\ events = NewTrie
    /\ nextW = 1
    /\ ems = [s \in Slots |-> Idle]
    /\ last = Op("new", <<>>, Undefined, <<>>, 0)
    /\ regs = [p \in AllPatterns |-> <<>>]
    /\ inv = [w \in Serials |-> 0]
    /\ cleared = FALSE

(***************************************************************************)
(* History of registrations                                                *)
(***************************************************************************)
RECURSIVE RegsOn(_, _, _)
RegsOn(r, names, h) ==
    IF names = <<>> THEN r
    ELSE RegsOn([r EXCEPT ![Head(names)] = Append(@, h)], Tail(names), h)

RECURSIVE RegsOff(_, _, _)
RegsOff(r, names, h) ==
    IF names = <<>> THEN r
    ELSE RegsOff([r EXCEPT ![Head(names)] =
                      IF h = Undefined THEN <<>> ELSE RemoveFirst(@, h)],
                 Tail(names), h)

RECURSIVE RegsAfter(_, _)
\* The registrations left once the functions of calls have run: a
\* `process` unregisters itself.
RegsAfter(r, calls) ==
    IF calls = <<>> THEN r
    ELSE RegsAfter(IF Head(calls).k = "once"
                   THEN RegsOff(r, Head(calls).names, Head(calls)) ELSE r,
                   Tail(calls))

\* The walk's functions gave the dispatcher a new trie.
ClearedBy(ws) == ws.root # 1

\* The registrations left after a walk.
RegsLeft(r, ws) ==
    IF ClearedBy(ws) THEN [p \in AllPatterns |-> <<>>] ELSE RegsAfter(r, ws.calls)

\* The invocation counts once the functions of calls have run (counted to 2).
InvAfter(c, calls) ==
    [w \in Serials |->
        LET n == c[w] + Cardinality({i \in DOMAIN calls : calls[i].w = w})
        IN IF n > 2 THEN 2 ELSE n]

(***************************************************************************)
(* Operations                                                              *)
(***************************************************************************)
\* on(names, h)
On(names, h) ==
    /\ Total(events) < MaxRegs
    /\ events' = on(events, names, h)
    /\ regs' = RegsOn(regs, names, h)
    /\ cleared' = FALSE
    /\ ems' = Live(ems)
    /\ last' = Op("on", names, h, <<>>, 0)
    /\ UNCHANGED <<nextW, inv>>

\* once(names, Fn(i)): registers a fresh `process`.
Once(names, i) ==
    /\ Total(events) < MaxRegs
    /\ nextW <= MaxOnce
    /\ events' = on(events, names, OnceProcess(nextW, names, i))
    /\ regs' = RegsOn(regs, names, OnceProcess(nextW, names, i))
    /\ nextW' = nextW + 1
    /\ cleared' = FALSE
    /\ ems' = Live(ems)
    /\ last' = Op("once", names, Fn(i), <<>>, 0)
    /\ UNCHANGED inv

\* off(names, h); h = Undefined is off(names).
Off(names, h) ==
    /\ events' = off(events, names, h)
    /\ regs' = RegsOff(regs, names, h)
    /\ ems' = Live(ems)
    /\ last' = Op("off", names, h, <<>>, 0)
    /\ UNCHANGED <<nextW, inv, cleared>>

\* removeAllListeners()
RemoveAllListeners ==
    /\ events' = removeAllListeners(events)
    /\ regs' = [p \in AllPatterns |-> <<>>]
    /\ cleared' = TRUE
    /\ ems' = Live(ems)
    /\ last' = Op("removeAllListeners", <<>>, Undefined, <<>>, 0)
    /\ UNCHANGED <<nextW, inv>>

\* emit(event)
Emit(event) ==
    LET ws == WalkCalling(events, event) IN
    /\ events' = ws.heap[ws.root]
    /\ regs' = RegsLeft(regs, ws)
    /\ inv' = InvAfter(inv, ws.calls)
    /\ cleared' = (cleared \/ ClearedBy(ws))
    /\ ems' = Live(ems)
    /\ last' = [Op("emit", <<event>>, Undefined, ws.calls, 0) EXCEPT !.threw = ws.thrown]
    /\ UNCHANGED nextW

(***************************************************************************)
(* Asynchronous emission                                                   *)
(*                                                                         *)
(* An emission in a slot: mode "seq" (emitAsyncSequential) or "par"        *)
(* (emitAsync); list, the handlers collected (seq) or the results handed   *)
(* to Promise.all (par); started, the functions invoked so far; ops, the   *)
(* state of what each returned ("pending", "resolved", "rejected"); st,    *)
(* the state of the promise the call returned; clean, whether the call     *)
(* was made with no on/once since removeAllListeners.                      *)
(***************************************************************************)
\* The slot a new emission takes: the first that holds no running one.
HasFree == \E s \in Slots : Live(ems)[s].mode = "idle"
FreeSlot == CHOOSE s \in Slots :
                /\ Live(ems)[s].mode = "idle"
                /\ \A r \in 1..(s - 1) : Live(ems)[r].mode # "idle"

\* Mutant of Awaited: the function goes on without waiting.
NotAwaited(em) == TRUE

\* `await x` lets the function go on once x is settled.
Awaited(em) == em.ops = <<>> \/ em.ops[Len(em.ops)] # "pending"

\* Mutant of Thrown: a rejection is swallowed.
Swallowed(em) == FALSE

\* An awaited rejection is thrown at the await: it leaves the for-of loop
\* and rejects the call.
Thrown(em) == em.ops # <<>> /\ em.ops[Len(em.ops)] = "rejected"

\* Line 216, handler.apply(this, params), for the next handler of the list.
SeqInvoke(t, em) == Call(WalkState(t), em.list[Len(em.started) + 1])

\* emitAsyncSequential(event), up to its first await (or its return, when
\* nothing was collected).  An exception thrown by handler.apply rejects the
\* promise of the async function at once.
EmitAsyncSequential(event) ==
    LET handlers == WalkCollecting(events, event)
        em0 == [mode |-> "seq", list |-> handlers, started |-> <<>>, ops |-> <<>>,
                st |-> "running", clean |-> cleared]
        ws == IF handlers = <<>> THEN WalkState(events) ELSE SeqInvoke(events, em0)
    IN
    /\ HasFree
    /\ events' = ws.heap[ws.root]
    /\ ems' = [Live(ems) EXCEPT ![FreeSlot] =
                  IF handlers = <<>>
                  THEN [em0 EXCEPT !.st = "resolved"]
                  ELSE IF ws.thrown
                  THEN [em0 EXCEPT !.started = ws.calls, !.ops = <<"rejected">>,
                                   !.st = "rejected"]
                  ELSE [em0 EXCEPT !.started = ws.calls, !.ops = <<"pending">>]]
    /\ regs' = RegsLeft(regs, ws)
    /\ inv' = InvAfter(inv, ws.calls)
    /\ cleared' = (cleared \/ ClearedBy(ws))
    /\ last' = Op("emitAsyncSequential", <<event>>, Undefined, ws.calls, FreeSlot)
    /\ UNCHANGED nextW

\* What handler k of the emission in slot s returned settles.  A `process`
\* returns undefined, which cannot reject.
Settle(s, k, outcome) ==
    /\ k \in DOMAIN ems[s].ops
    /\ ems[s].ops[k] = "pending"
    /\ outcome = "rejected" => ems[s].started[k].k = "fn"
    /\ ems' = [Live(ems) EXCEPT ![s].ops[k] = outcome]
    /\ last' = Op("settle", <<>>, Undefined, <<>>, 0)
    /\ UNCHANGED <<events, nextW, regs, inv, cleared>>

\* emitAsyncSequential goes on after its await: it rejects, invokes the
\* next handler of its list, or returns.
SeqResume(s) ==
    LET em == ems[s]
        more == ~Thrown(em) /\ Len(em.started) < Len(em.list)
        ws == IF more THEN SeqInvoke(events, em) ELSE WalkState(events)
    IN
    /\ em.mode = "seq" /\ em.st = "running"
    /\ Awaited(em)
    /\ events' = ws.heap[ws.root]
    /\ ems' = [Live(ems) EXCEPT ![s] =
                  IF Thrown(em) THEN [em EXCEPT !.st = "rejected"]
                  ELSE IF more /\ ws.thrown
                  THEN [em EXCEPT !.started = @ \o ws.calls, !.ops = Append(@, "rejected"),
                                  !.st = "rejected"]
                  ELSE IF more
                  THEN [em EXCEPT !.started = @ \o ws.calls, !.ops = Append(@, "pending")]
                  ELSE [em EXCEPT !.st = "resolved"]]
    /\ regs' = RegsLeft(regs, ws)
    /\ inv' = InvAfter(inv, ws.calls)
    /\ cleared' = (cleared \/ ClearedBy(ws))
    /\ last' = Op("resume", <<>>, Undefined, ws.calls, s)
    /\ UNCHANGED nextW

\* emitAsync(event), up to its await of Promise.all; an exception thrown in
\* the walk rejects the promise of the async function at once.
EmitAsync(event) ==
    LET ws == WalkCalling(events, event) IN
    /\ HasFree
    /\ events' = ws.heap[ws.root]
    /\ ems' = [Live(ems) EXCEPT ![FreeSlot] =
                  [mode |-> "par", list |-> ws.calls, started |-> ws.calls,
                   ops |-> [i \in DOMAIN ws.calls |->
                               IF ws.calls[i].k = "throw" THEN "rejected" ELSE "pending"],
                   st |-> IF ws.thrown THEN "rejected" ELSE "running",
                   clean |-> cleared]]
    /\ regs' = RegsLeft(regs, ws)
    /\ inv' = InvAfter(inv, ws.calls)
    /\ cleared' = (cleared \/ ClearedBy(ws))
    /\ last' = Op("emitAsync", <<event>>, Undefined, ws.calls, FreeSlot)
    /\ UNCHANGED nextW

\* Promise.all: rejected as soon as one of its promises is, resolved when
\* all of them are.
AllRejected(em) == \E k \in DOMAIN em.ops : em.ops[k] = "rejected"

\* Mutant of AllResolved: Promise.race in place of Promise.all.
AnyResolved(em) == \E k \in DOMAIN em.ops : em.ops[k] = "resolved"

AllResolved(em) == \A k \in DOMAIN em.ops : em.ops[k] = "resolved"

\* emitAsync goes on after its await: it rejects or returns.
ParResume(s) ==
    LET em == ems[s] IN
    /\ em.mode = "par" /\ em.st = "running"
    /\ AllRejected(em) \/ AllResolved(em)
    /\ ems' = [Live(ems) EXCEPT ![s].st = IF AllRejected(em) THEN "rejected" ELSE "resolved"]
    /\ last' = Op("resume", <<>>, Undefined, <<>>, s)
    /\ UNCHANGED <<events, nextW, regs, inv, cleared>>

(***************************************************************************)
(* Exact patterns only: on, off, removeAllListeners, emit                  *)
(***************************************************************************)
ExactNames == {nA, nB, nAB, nABC}

NextExact ==
    \/ \E p \in ExactNames, h \in Handlers : On(<<p>>, h)
    \/ \E p \in ExactNames, h \in Handlers \cup {Undefined} : Off(<<p>>, h)
    \/ RemoveAllListeners
    \/ \E e \in ExactNames \cup {nAC} : Emit(e)

SpecExact == Init /\ [][NextExact]_vars

\* How often h is registered (and not removed) under pattern p.
Registered(p, h) == IF p \in DOMAIN regs THEN Count(regs[p], h) ELSE 0

\* C1: with wildcard-free patterns only, emit(e) invokes every handler as
\* many times as it is registered on the exact pattern e, and so none that
\* is registered only on other patterns (prefixes and extensions of e too).
C1_ExactDelivery ==
    last.op = "emit" =>
        \A h \in Handlers : Count(last.calls, h) = Registered(last.names[1], h)

\* emit("a.b") invoked a handler twice, registered twice on "a.b", while
\* the prefix "a" holds a registration that stayed silent.
C1_Witness ==
    /\ last.op = "emit" /\ last.names = <<nAB>>
    /\ Count(last.calls, Fn(1)) = 2
    /\ regs[nA] = <<Fn(2)>> /\ Count(last.calls, Fn(2)) = 0

(***************************************************************************)
(* Wildcard patterns: on, off, removeAllListeners, emit                    *)
(***************************************************************************)
WildPatterns == {nA, nABC, nAStarC, nABelow}
WildEvents == {nA, nB, nAB, nAC, nABC, nACC, nABB, nABBC, nBBC, nAStarC}

\* Removal is called here for the patterns without a double wildcard.
NextWild ==
    \/ \E p \in WildPatterns, h \in Handlers : On(<<p>>, h)
    \/ \E p \in WildPatterns \ {nABelow}, h \in Handlers : Off(<<p>>, h)
    \/ RemoveAllListeners
    \/ \E e \in WildEvents : Emit(e)

SpecWild == Init /\ [][NextWild]_vars

\* h is registered once under pattern p and under no other pattern.
OnlyOn(p, h) ==
    /\ Count(regs[p], h) = 1
    /\ \A q \in AllPatterns \ {p} : Count(regs[q], h) = 0

\* The segments of event name n.
Segs(n) == Split(n)

\* C2: a handler registered (once, and nowhere else) on "a.*.c" is invoked
\* once by emit(n) when n has exactly three segments, the first "a" and the
\* third "c", and not at all by any other emit.
C2_SingleWildcard ==
    last.op = "emit" =>
        \A h \in Handlers :
            OnlyOn(nAStarC, h) =>
                Count(last.calls, h) =
                    (IF /\ Len(Segs(last.names[1])) = 3
                        /\ Segs(last.names[1])[1] = <<"a">>
                        /\ Segs(last.names[1])[3] = <<"c">>
                     THEN 1 ELSE 0)

\* emit("a.c.c") invoked the handler of "a.*.c" once.
C2_Witness ==
    /\ last.op = "emit" /\ last.names = <<nACC>>
    /\ OnlyOn(nAStarC, Fn(1))
    /\ Count(last.calls, Fn(1)) = 1

\* The functions emit(n) would invoke on trie t, in order.
Invoked(t, n) == WalkCalling(t, n).calls

\* How many references to h the buckets of trie t hold.
Held(t, h) ==
    LET RECURSIVE Over(_)
        Over(S) == IF S = {} THEN 0
                   ELSE LET p == CHOOSE x \in S : TRUE
                        IN Count(t[p].handlers, h) + Count(t[p].allBelow, h)
                           + Over(S \ {p})
    IN Over(DOMAIN t)

\* C4: from every trie state, for every pattern p and handler h, on(p, h)
\* followed by off(p, h) leaves emit(n) invoking, for every n, each handler
\* as often as before the on, and leaves h in no bucket it was not in.
C4_OffUndoesOn ==
    \A p \in AllPatterns, h \in Handlers :
        LET after == off(on(events, <<p>>, h), <<p>>, h) IN
        /\ Held(after, h) = Held(events, h)
        /\ \A n \in WildEvents, g \in Handlers :
               Count(Invoked(after, n), g) = Count(Invoked(events, n), g)

\* What does hold: C4 for the patterns without a double wildcard.
C4_OffUndoesOnNoBelow ==
    \A p \in {nA, nB, nAB, nABC, nAStar, nAStarC}, h \in Handlers :
        LET after == off(on(events, <<p>>, h), <<p>>, h) IN
        /\ Held(after, h) = Held(events, h)
        /\ \A n \in WildEvents, g \in Handlers :
               Count(Invoked(after, n), g) = Count(Invoked(events, n), g)

(***************************************************************************)
(* Registration and emission, no removal of single handlers                *)
(***************************************************************************)
RegPatterns == {nA, nAB, nAStarC, nABelow}

NextReg ==
    \/ \E p \in RegPatterns, h \in Handlers : On(<<p>>, h)
    \/ RemoveAllListeners
    \/ \E e \in WildEvents : Emit(e)

SpecReg == Init /\ [][NextReg]_vars

\* C3: after any sequence of registrations, a handler registered once on
\* "a.**" (and nowhere else) is invoked once by emit(n) for every n whose first segment is "a", "a" itself
\* included, and by no other emit; with another handler on "a.*.c",
\* emit("a.b.c") invokes both once each and emit("a.b.b") only the first.
C3_BelowWildcard ==
    last.op = "emit" =>
        \A h \in Handlers :
            OnlyOn(nABelow, h) =>
                /\ Count(last.calls, h) =
                       (IF Segs(last.names[1])[1] = <<"a">> THEN 1 ELSE 0)
                /\ \A g \in Handlers :
                       OnlyOn(nAStarC, g) =>
                           /\ last.names = <<nABC>> =>
                                  Count(last.calls, g) = 1 /\ Count(last.calls, h) = 1
                           /\ last.names = <<nABB>> =>
                                  Count(last.calls, g) = 0 /\ Count(last.calls, h) = 1

\* emit("a") invoked the handler of "a.**" once, and not that of "a.*.c".
C3_Witness ==
    /\ last.op = "emit" /\ last.names = <<nA>>
    /\ OnlyOn(nABelow, Fn(1)) /\ OnlyOn(nAStarC, Fn(2))
    /\ last.calls = <<Fn(1)>>

(***************************************************************************)
(* once: registration of `process` closures, synchronous emission          *)
(***************************************************************************)
OnceNames == {<<nAB>>, <<nAStar>>, <<nABelow>>}
OnceEvents == {nA, nAB, nAC}

NextOnce ==
    \/ \E names \in OnceNames, i \in HandlerIds : Once(names, i)
    \/ \E h \in Handlers : On(<<nAB>>, h)
    \/ \E e \in OnceEvents : Emit(e)

SpecOnce == Init /\ [][NextOnce]_vars

\* C5: for once(p, h) with a single pattern p, once h has been invoked by
\* an emit, no later emit invokes h (through that registration) again: an
\* emit invokes no `process` that was invoked before.
C5_OnceFiresOnce ==
    [][last'.op = "emit" =>
           \A i \in DOMAIN last'.calls :
               (last'.calls[i].k = "once" /\ Len(last'.calls[i].names) = 1)
                   => inv[last'.calls[i].w] = 0]_vars

\* What does hold: C5 for the patterns without a double wildcard.
C5_OnceFiresOnceNoBelow ==
    [][last'.op = "emit" =>
           \A i \in DOMAIN last'.calls :
               (last'.calls[i].k = "once" /\ last'.calls[i].names \in {<<nAB>>, <<nAStar>>})
                   => inv[last'.calls[i].w] = 0]_vars

(***************************************************************************)
(* once with a list of patterns, the three emission modes                  *)
(***************************************************************************)
OnceLists == {<<nAStar, nAB>>, <<nAB, nAC>>}

NextOnceList ==
    \/ \E names \in OnceLists, i \in HandlerIds : Once(names, i)
    \/ \E e \in OnceEvents : Emit(e)
    \/ \E e \in OnceEvents : EmitAsyncSequential(e)
    \/ \E e \in OnceEvents : EmitAsync(e)
    \/ \E s \in Slots, k \in 1..MaxRegs, o \in {"resolved", "rejected"} : Settle(s, k, o)
    \/ \E s \in Slots : SeqResume(s)
    \/ \E s \in Slots : ParResume(s)

SpecOnceList == Init /\ [][NextOnceList]_vars

\* C6: for once([p1, p2], h), h is invoked at most once in total (through
\* that registration), whichever of emit, emitAsyncSequential and emitAsync
\* are called: no `process` is invoked twice.
C6_OnceListFiresOnce == \A w \in Serials : inv[w] <= 1

\* What does hold: no emit and no emitAsync invokes a `process` invoked before,
\* nor one `process` twice.
C6_OnceListEager ==
    [][last'.op \in {"emit", "emitAsync"} =>
           \A i \in DOMAIN last'.calls :
               /\ inv[last'.calls[i].w] = 0
               /\ Count(last'.calls, last'.calls[i]) = 1]_vars

(***************************************************************************)
(* The three emission modes, with registration and removeAllListeners      *)
(***************************************************************************)
AsyncPatterns == {nAB, nABelow}
AsyncEvents == {nA, nAB}
Outcomes == {"resolved", "rejected"}

\* One handler function is registered here, under either pattern.  What the
\* handlers of an asynchronous emission return stays pending: only an
\* emitAsync that invoked nothing goes on after its await.
NextAsync ==
    \/ \E p \in AsyncPatterns : On(<<p>>, Fn(1))
    \/ RemoveAllListeners
    \/ \E e \in AsyncEvents : Emit(e)
    \/ \E e \in AsyncEvents : EmitAsyncSequential(e)
    \/ \E e \in AsyncEvents : EmitAsync(e)
    \/ \E s \in Slots : ParResume(s)

SpecAsync == Init /\ [][NextAsync]_vars

(***************************************************************************)
(* Order within the allBelow bucket: emit against emitAsyncSequential      *)
(***************************************************************************)
NextOrder ==
    \/ \E h \in Handlers : On(<<nABelow>>, h)
    \/ \E e \in AsyncEvents : Emit(e)
    \/ \E e \in AsyncEvents : EmitAsyncSequential(e)
    \/ \E s \in Slots, k \in 1..(MaxRegs + 1), o \in Outcomes : Settle(s, k, o)
    \/ \E s \in Slots : SeqResume(s)

SpecOrder == Init /\ [][NextOrder]_vars

(***************************************************************************)
(* emitAsyncSequential, with registration going on                         *)
(***************************************************************************)
\* A handler function is not registered twice in a row, so that neighbours
\* in a list are told apart.
LastHandler(t) ==
    LET hs == t[<<ChildKey(<<"a">>), ChildKey(<<"b">>)>>].handlers
    IN hs[Len(hs)]

NextSeq ==
    \/ \E h \in Handlers :
           /\ Exists(events, <<ChildKey(<<"a">>), ChildKey(<<"b">>)>>) => h # LastHandler(events)
           /\ On(<<nAB>>, h)
    \/ EmitAsyncSequential(nAB)
    \/ \E s \in Slots, k \in 1..MaxRegs, o \in Outcomes : Settle(s, k, o)
    \/ \E s \in Slots : SeqResume(s)

SpecSeq == Init /\ [][NextSeq]_vars

EmitOps == {"emit", "emitAsyncSequential", "emitAsync"}

\* C7: after removeAllListeners, and until the next on/once, an emit, an
\* emitAsyncSequential and an emitAsync of any name invoke and collect no
\* handler.
C7_NoHandlersAfterRemoveAll ==
    /\ (cleared /\ last.op \in EmitOps) => last.calls = <<>>
    /\ \A s \in Slots :
           ems[s].clean => ems[s].list = <<>> /\ ems[s].started = <<>>

\* An emitAsyncSequential called after removeAllListeners found nothing,
\* while an emission begun before it still holds its handlers.
C7_Witness ==
    /\ cleared /\ last.op = "emitAsyncSequential"
    /\ ems[last.slot].clean /\ ems[last.slot].st = "resolved"
    /\ \E s \in Slots : ~ems[s].clean /\ ems[s].st = "running" /\ Len(ems[s].list) >= 2

\* C8: with H1 and then H2 registered on "a.**" (and nothing else), for
\* every name the pattern matches, "a" itself and deeper ones, emit invokes
\* H2 before H1 and emitAsyncSequential collects, and so invokes, H1 before
\* H2.
C8_BelowOrder ==
    (/\ regs[nABelow] = <<Fn(1), Fn(2)>>
     /\ \A q \in AllPatterns \ {nABelow} : regs[q] = <<>>
     /\ last.op \in EmitOps
     /\ Segs(last.names[1])[1] = <<"a">>)
    => /\ last.op = "emit" => last.calls = <<Fn(2), Fn(1)>>
       /\ last.op = "emitAsyncSequential" => ems[last.slot].list = <<Fn(1), Fn(2)>>

\* What does hold: C8 for the names deeper than the node of the pattern.
C8_BelowOrderDeeper ==
    (/\ regs[nABelow] = <<Fn(1), Fn(2)>>
     /\ \A q \in AllPatterns \ {nABelow} : regs[q] = <<>>
     /\ last.op \in EmitOps
     /\ Segs(last.names[1])[1] = <<"a">>
     /\ Len(Segs(last.names[1])) > 1)
    => /\ last.op = "emit" => last.calls = <<Fn(2), Fn(1)>>
       /\ last.op = "emitAsyncSequential" => ems[last.slot].list = <<Fn(1), Fn(2)>>

\* C9: an emitAsyncSequential has invoked a prefix of the handlers it
\* collected, in their order, and what every invoked handler but the last
\* returned has completed: the next handler is not started before.
C9_OneAtATime ==
    \A s \in Slots :
        ems[s].mode = "seq" =>
            /\ Len(ems[s].started) <= Len(ems[s].list)
            /\ ems[s].started = SubSeq(ems[s].list, 1, Len(ems[s].started))
            /\ Len(ems[s].ops) = Len(ems[s].started)
            /\ \A k \in 1..(Len(ems[s].ops) - 1) : ems[s].ops[k] = "resolved"

\* Two emitAsyncSequential calls are under way, one at its third handler,
\* the other still waiting for its first.
C9_Witness ==
    \E s, r \in Slots :
        /\ s # r
        /\ ems[s].mode = "seq" /\ ems[s].st = "running"
        /\ ems[s].ops = <<"resolved", "resolved", "pending">>
        /\ ems[r].mode = "seq" /\ ems[r].st = "running"
        /\ ems[r].ops = <<"pending">> /\ Len(ems[r].list) >= 2

\* C10: in an emitAsyncSequential, when what the k-th handler returned
\* rejects, no handler after the k-th is invoked, the handlers before it
\* have completed, and the call does not resolve: it rejects, and only so.
C10_RejectionStops ==
    \A s \in Slots :
        ems[s].mode = "seq" =>
            /\ \A k \in DOMAIN ems[s].ops :
                   ems[s].ops[k] = "rejected" =>
                       /\ Len(ems[s].started) = k
                       /\ \A j \in 1..(k - 1) : ems[s].ops[j] = "resolved"
                       /\ ems[s].st \in {"running", "rejected"}
            /\ ems[s].st = "rejected" => Thrown(ems[s])

\* An emitAsyncSequential rejected at its second handler of three.
C10_Witness ==
    \E s \in Slots :
        /\ ems[s].mode = "seq" /\ ems[s].st = "rejected"
        /\ ems[s].ops = <<"resolved", "rejected">>
        /\ Len(ems[s].list) = 3

(***************************************************************************)
(* emitAsync, one call at a time, with registration going on               *)
(***************************************************************************)
ParPatterns == {nAB, nAStar}

\* No asynchronous emission is under way.
Quiet == \A s \in Slots : Live(ems)[s].mode = "idle"

NextPar ==
    \/ \E p \in ParPatterns, h \in Handlers : On(<<p>>, h)
    \/ Quiet /\ EmitAsync(nAB)
    \/ \E s \in Slots, k \in 1..MaxRegs, o \in Outcomes : Settle(s, k, o)
    \/ \E s \in Slots : ParResume(s)

SpecPar == Init /\ [][NextPar]_vars

\* C11: emitAsync("a.b") has invoked every handler registered on "a.b" and
\* on "a.*", once per registration, when it suspends; the call is resolved
\* only when what all of them returned has resolved, is rejected only when
\* one of them has rejected, whatever the others did, and is never resolved
\* once one has rejected; what was started stays started.
C11_EmitAsync ==
    /\ last.op = "emitAsync" =>
           /\ \A h \in Handlers :
                  Count(last.calls, h) = Registered(nAB, h) + Registered(nAStar, h)
           /\ ems[last.slot].started = last.calls
           /\ \A k \in DOMAIN last.calls : ems[last.slot].ops[k] = "pending"
    /\ \A s \in Slots :
           ems[s].mode = "par" =>
               /\ Len(ems[s].ops) = Len(ems[s].started)
               /\ ems[s].st = "resolved" =>
                      \A k \in DOMAIN ems[s].ops : ems[s].ops[k] = "resolved"
               /\ ems[s].st = "rejected" =>
                      \E k \in DOMAIN ems[s].ops : ems[s].ops[k] = "rejected"
               /\ (/\ ems[s].st = "running"
                   /\ \E k \in DOMAIN ems[s].ops : ems[s].ops[k] = "rejected")
                      => ENABLED ParResume(s)

\* An emitAsync is rejected for its second handler, the first had resolved
\* and the third is still at work.
C11_Witness ==
    \E s \in Slots :
        /\ ems[s].mode = "par" /\ ems[s].st = "rejected"
        /\ ems[s].ops = <<"resolved", "rejected", "pending">>

(***************************************************************************)
(* Removal twice                                                           *)
(***************************************************************************)
BelowPatterns == {nABelow, nABelowB, nBelow}

\* C12: from every trie state, for every pattern p and handler h registered
\* at most once under p, off(p, h) called twice leaves the trie that one
\* off(p, h) leaves.
C12_OffIdempotent ==
    \A p \in AllPatterns, h \in Handlers :
        Registered(p, h) <= 1 =>
            off(off(events, <<p>>, h), <<p>>, h) = off(events, <<p>>, h)

\* What does hold: C12 while nothing is registered under a pattern with a
\* double wildcard.
C12_OffIdempotentNoBelow ==
    (\A q \in BelowPatterns : regs[q] = <<>>) =>
        \A p \in AllPatterns, h \in Handlers :
            Registered(p, h) <= 1 =>
                off(off(events, <<p>>, h), <<p>>, h) = off(events, <<p>>, h)

(***************************************************************************)
(* Repeated registration and removal: on, off, off without handler, emit   *)
(***************************************************************************)
IdentPatterns == {nAB, nAStar, nABelow}

NextIdent ==
    \/ \E p \in IdentPatterns, h \in Handlers : On(<<p>>, h)
    \/ \E p \in IdentPatterns, h \in Handlers \cup {Undefined} : Off(<<p>>, h)
    \/ \E e \in OnceEvents : Emit(e)

SpecIdent == Init /\ [][NextIdent]_vars

\* Pattern p of IdentPatterns matches event name n.
Matches(p, n) ==
    \/ p = nAB /\ n = nAB
    \/ p = nAStar /\ Len(Segs(n)) = 2 /\ Segs(n)[1] = <<"a">>
    \/ p = nABelow /\ Segs(n)[1] = <<"a">>

RECURSIVE SumRegistered(_, _, _)
\* The registrations of h left under the patterns of S that match n, where
\* on(p, h) adds one, off(p, h) removes one and off(p) removes all of p.
SumRegistered(S, n, h) ==
    IF S = {} THEN 0
    ELSE LET p == CHOOSE x \in S : TRUE
         IN (IF Matches(p, n) THEN Registered(p, h) ELSE 0)
            + SumRegistered(S \ {p}, n, h)

\* C13: emit(n) invokes h once per registration of h left under a pattern
\* that matches n: k registrations give k invocations, each off(p, h) takes
\* one away and off(p) all those of p.
C13_ReferenceIdentity ==
    last.op = "emit" =>
        \A h \in Handlers :
            Count(last.calls, h) = SumRegistered(IdentPatterns, last.names[1], h)

\* What does hold: C13 for the names below the node of "a".
C13_ReferenceIdentityDeeper ==
    (last.op = "emit" /\ last.names[1] # nA) =>
        \A h \in Handlers :
            Count(last.calls, h) = SumRegistered(IdentPatterns, last.names[1], h)

(***************************************************************************)
(* Handlers that throw, synchronous emission                               *)
(***************************************************************************)
ThrowPatterns == {nAB, nAStar, nABelow}
ThrowHandlers == {Fn(1), Thrower(2)}

NextThrow ==
    \/ \E p \in ThrowPatterns, h \in ThrowHandlers : On(<<p>>, h)
    \/ Once(<<nAStar>>, 1)
    \/ \E e \in AsyncEvents : Emit(e)

SpecThrow == Init /\ [][NextThrow]_vars

\* h, were it not to throw.
Tamed(h) == IF h.k = "throw" THEN [h EXCEPT !.k = "tame"] ELSE h

TamedSeq(seq) == [i \in DOMAIN seq |-> Tamed(seq[i])]

\* Trie t with every function that throws replaced by one that returns.
TamedTrie(t) ==
    [p \in DOMAIN t |->
        [handlers |-> TamedSeq(t[p].handlers), allBelow |-> TamedSeq(t[p].allBelow)]]

\* The functions emit(n) would visit on trie t, in order, if none threw.
Visited(t, n) == WalkCalling(TamedTrie(t), n).calls

\* The index of the first function of seq that throws, 0 if there is none.
FirstThrow(seq) ==
    IF \E i \in DOMAIN seq : seq[i].k = "tame"
    THEN CHOOSE i \in DOMAIN seq :
             seq[i].k = "tame" /\ \A j \in 1..(i - 1) : seq[j].k # "tame"
    ELSE 0

RECURSIVE OffEach(_, _)
\* The trie once every `process` of calls has removed itself.
OffEach(t, calls) ==
    IF calls = <<>> THEN t
    ELSE OffEach(IF Head(calls).k = "once" THEN off(t, Head(calls).names, Head(calls)) ELSE t,
                 Tail(calls))

\* C14: an emit whose walk reaches a function that throws invokes what the
\* walk visits up to and including that function and nothing after it, and
\* throws to its caller; the functions invoked before keep their effect (a
\* `process` has removed itself, also one reached through the wildcard
\* child).  An emit that reaches none invokes all and returns.
C14_SyncThrow ==
    [][last'.op = "emit" =>
           LET would == Visited(events, last'.names[1])
               k == FirstThrow(would)
           IN /\ last'.threw = (k # 0)
              /\ TamedSeq(last'.calls) = (IF k = 0 THEN would ELSE SubSeq(would, 1, k))
              /\ events' = OffEach(events, last'.calls)]_vars

\* emit("a.b") threw: the `process` on "a.*" had run and is registered no
\* more, the function registered on "a.b" behind the thrower was not invoked.
C14_Witness ==
    /\ last.op = "emit" /\ last.names = <<nAB>> /\ last.threw
    /\ last.calls = <<OnceProcess(1, <<nAStar>>, 1), Thrower(2)>>
    /\ regs[nAB] = <<Thrower(2), Fn(1)>>
    /\ regs[nAStar] = <<>>

(***************************************************************************)
(* What on() changes for a pattern with a double wildcard                  *)
(***************************************************************************)
\* The index of the first double-wildcard segment of parts.
TokenAt(parts) ==
    CHOOSE i \in DOMAIN parts :
        parts[i] = doubleWild /\ \A j \in 1..(i - 1) : parts[j] # doubleWild

\* The path of the node that the segments before the double wildcard lead to.
BelowNode(p) ==
    LET parts == Split(p) IN
    [i \in 1..(TokenAt(parts) - 1) |->
        IF parts[i] = <<wildcard>> THEN AllKey ELSE ChildKey(parts[i])]

Prefixes(path) == {SubSeq(path, 1, k) : k \in 0..Len(path)}

\* C15: from every trie state, on(p, h) for a pattern p with a double
\* wildcard appends h to the allBelow bucket of the node before the token,
\* changes no exact handlers bucket, creates no node but those leading to
\* that node, and makes no emit invoke h more than once more than before.
C15_BelowTerminal ==
    \A p \in BelowPatterns, h \in Handlers :
        LET after == on(events, <<p>>, h)
            node == BelowNode(p)
        IN /\ DOMAIN after \subseteq (DOMAIN events \cup Prefixes(node))
           /\ \A q \in DOMAIN after :
                  after[q].handlers = (IF q \in DOMAIN events THEN events[q].handlers ELSE <<>>)
           /\ after[node].allBelow =
                  Append(IF node \in DOMAIN events THEN events[node].allBelow ELSE <<>>, h)
           /\ \A n \in WildEvents :
                  Count(Invoked(after, n), h) <= Count(Invoked(events, n), h) + 1

\* What does hold: the allBelow bucket of the node before the token gets h,
\* and an emit of a name below that node, off the remaining segments,
\* invokes h once more than before.
C15_BelowPushed ==
    \A p \in BelowPatterns, h \in Handlers :
        LET after == on(events, <<p>>, h)
            node == BelowNode(p)
        IN /\ after[node].allBelow =
                  Append(IF node \in DOMAIN events THEN events[node].allBelow ELSE <<>>, h)
           /\ \A n \in {nAC, nABC, nACC} :
                  Count(Invoked(after, n), h) = Count(Invoked(events, n), h) + 1

(***************************************************************************)
(* Removal that finds nothing                                              *)
(***************************************************************************)
\* C16: from every trie state, an off(p, h) that removes no reference to h
\* from any bucket leaves the whole trie as it was: the same nodes, the
\* same buckets.
C16_OffNoMatch ==
    \A p \in AllPatterns, h \in Handlers :
        LET after == off(events, <<p>>, h) IN
        Held(after, h) = Held(events, h) => after = events

\* What does hold: C16 for the patterns without a single-wildcard segment.
C16_OffNoMatchNoWildcard ==
    \A p \in AllPatterns \ {nAStar, nAStarC}, h \in Handlers :
        LET after == off(events, <<p>>, h) IN
        Held(after, h) = Held(events, h) => after = events

(***************************************************************************)
(* A handler that removes itself during the walk                           *)
(***************************************************************************)
\* C17: when the exact bucket of "a.b" holds a `process` of once("a.b", h1)
\* followed by a function h2 registered with on("a.b", h2), and nothing
\* else is registered, emit("a.b") invokes h2 exactly once.
C17_SelfRemoval ==
    [][(/\ last'.op = "emit" /\ last'.names = <<nAB>>
        /\ Len(regs[nAB]) = 2
        /\ regs[nAB][1].k = "once" /\ regs[nAB][1].names = <<nAB>>
        /\ regs[nAB][2].k = "fn"
        /\ \A q \in AllPatterns \ {nAB} : regs[q] = <<>>)
       => Count(last'.calls, regs[nAB][2]) = 1]_vars

\* What does hold: the `process` is invoked once, and h2 is invoked once
\* when it was registered before the once.
C17_SelfRemovalLast ==
    [][(/\ last'.op = "emit" /\ last'.names = <<nAB>>
        /\ Len(regs[nAB]) = 2
        /\ regs[nAB][1].k = "fn"
        /\ regs[nAB][2].k = "once" /\ regs[nAB][2].names = <<nAB>>
        /\ \A q \in AllPatterns \ {nAB} : regs[q] = <<>>)
       => last'.calls = regs[nAB]]_vars

(***************************************************************************)
(* The three emission modes over one trie, handlers that only return       *)
(***************************************************************************)
ModePatterns == {nAB, nAStar, nABelow, nBelow}
ModeEvents == {nA, nAB, nABC}

\* Handlers here are plain functions whose results resolve; one
\* asynchronous emission is under way at a time.
NextModes ==
    \/ \E p \in ModePatterns, h \in Handlers : On(<<p>>, h)
    \/ \E e \in ModeEvents : Emit(e)
    \/ \E e \in ModeEvents : Quiet /\ EmitAsyncSequential(e)
    \/ \E e \in ModeEvents : Quiet /\ EmitAsync(e)
    \/ \E s \in Slots, k \in 1..(2 * MaxRegs) : Settle(s, k, "resolved")
    \/ \E s \in Slots : SeqResume(s)
    \/ \E s \in Slots : ParResume(s)

SpecModes == Init /\ [][NextModes]_vars

Reverse(seq) == [i \in DOMAIN seq |-> seq[Len(seq) + 1 - i]]

RECURSIVE CollectedBelowReversed(_, _, _, _)
\* The order in which emitAsyncSequential collects, with every allBelow
\* bucket taken backwards.
CollectedBelowReversed(t, scan, parts, index) ==
    IF ~Exists(t, scan) THEN <<>>
    ELSE IF index <= Len(parts)
    THEN Reverse(t[scan].allBelow)
         \o (IF Exists(t, Append(scan, AllKey))
             THEN CollectedBelowReversed(t, Append(scan, AllKey), parts, index + 1)
             ELSE <<>>)
         \o CollectedBelowReversed(t, Append(scan, ChildKey(parts[index])), parts, index + 1)
    ELSE t[scan].handlers

\* C18: on every trie of plain handlers and for every event name n, what
\* emit(n) and emitAsync(n) invoke is, as a multiset, what
\* emitAsyncSequential(n) collects, and in order it is that list with each
\* allBelow bucket reversed; an emit and an emitAsync invoke just that, and
\* an emitAsyncSequential that has resolved has invoked all of its list, in
\* the list's order.
C18_SameWalk ==
    /\ \A n \in ModeEvents :
           LET c == Invoked(events, n)
               l == WalkCollecting(events, n)
           IN /\ \A h \in Handlers : Count(c, h) = Count(l, h)
              /\ Len(c) = Len(l)
              /\ c = CollectedBelowReversed(events, <<>>, Split(n), 1)
    /\ last.op \in {"emit", "emitAsync"} => last.calls = Invoked(events, last.names[1])
    /\ last.op = "emitAsync" => ems[last.slot].started = last.calls
    /\ \A s \in Slots :
           (ems[s].mode = "seq" /\ ems[s].st = "resolved") => ems[s].started = ems[s].list

\* emit("a.b") invoked H2, H1 from the allBelow bucket of a, where
\* emitAsyncSequential("a.b") collects H1, H2.
C18_Witness ==
    /\ last.op = "emit" /\ last.names = <<nAB>>
    /\ last.calls = <<Fn(2), Fn(1)>>
    /\ WalkCollecting(events, nAB) = <<Fn(1), Fn(2)>>

(***************************************************************************)
(* removeAllListeners while an emission is in flight                       *)
(***************************************************************************)
ClearHandlers == {Fn(1), Clearer(2)}

\* One emitAsyncSequential is under way at a time; emit is called at any
\* time.
NextClear ==
    \/ \E p \in AsyncPatterns, h \in ClearHandlers : On(<<p>>, h)
    \/ RemoveAllListeners
    \/ \E e \in AsyncEvents : Emit(e)
    \/ \E e \in AsyncEvents : Quiet /\ EmitAsyncSequential(e)
    \/ \E s \in Slots, k \in 1..(2 * MaxRegs) : Settle(s, k, "resolved")
    \/ \E s \in Slots : SeqResume(s)

SpecClear == Init /\ [][NextClear]_vars

\* h, were it not to call removeAllListeners.
Calmed(h) == IF h.k = "clear" THEN [h EXCEPT !.k = "calm"] ELSE h

CalmedSeq(seq) == [i \in DOMAIN seq |-> Calmed(seq[i])]

\* Trie t with every function that calls removeAllListeners replaced by one
\* that does not.
CalmedTrie(t) ==
    [p \in DOMAIN t |->
        [handlers |-> CalmedSeq(t[p].handlers), allBelow |-> CalmedSeq(t[p].allBelow)]]

\* C19: an emit invokes every function its walk would invoke if none of
\* them called removeAllListeners; an emitAsyncSequential keeps the list it
\* collected through its awaits and, once resolved, has invoked all of it,
\* whatever removeAllListeners did meanwhile; and an emission started after
\* a removeAllListeners, with no on since, invokes nothing.
C19_InFlight ==
    [][/\ last'.op = "emit" =>
              CalmedSeq(last'.calls) = Invoked(CalmedTrie(events), last'.names[1])
       /\ (cleared /\ last'.op \in EmitOps) => last'.calls = <<>>
       /\ \A s \in Slots :
              /\ (ems[s].st = "running" /\ ems[s].mode = "seq") =>
                     (ems'[s].mode = "seq" /\ ems'[s].list = ems[s].list)
              /\ (ems'[s].mode = "seq" /\ ems'[s].st = "resolved") =>
                     ems'[s].started = ems'[s].list]_vars

\* removeAllListeners ran after an emitAsyncSequential had collected its
\* three handlers and before it invoked the last of them, a plain
\* function, which it has now done with nothing registered any more.
C19_Witness ==
    \E s \in Slots :
        /\ ems[s].mode = "seq" /\ ~ems[s].clean
        /\ Len(ems[s].list) = 3 /\ ems[s].started = ems[s].list
        /\ ems[s].list[3].k = "fn"
        /\ last.op = "resume" /\ last.slot = s /\ last.calls # <<>>
        /\ cleared /\ events = NewTrie

(***************************************************************************)
(* once under overlapping emitAsyncSequential calls                        *)
(***************************************************************************)
NextOverlap ==
    \/ On(<<nAB>>, Fn(1))
    \/ \E i \in HandlerIds : Once(<<nAB>>, i)
    \/ EmitAsyncSequential(nAB)
    \/ \E s \in Slots, k \in 1..MaxRegs, o \in Outcomes : Settle(s, k, o)
    \/ \E s \in Slots : SeqResume(s)

SpecOverlap == Init /\ [][NextOverlap]_vars

\* C20: an emitAsyncSequential that goes on after an await invokes no
\* `process` of once("a.b", h) that was invoked before, by whichever call:
\* of the calls that collected it, one only invokes it.
C20_OnceOverlap ==
    [][last'.op = "resume" =>
           \A i \in DOMAIN last'.calls :
               last'.calls[i].k = "once" => inv[last'.calls[i].w] = 0]_vars

\* What does hold: the first handler of a call, invoked when the call
\* collects, is never a `process` that was invoked before.
C20_OnceFirstHandler ==
    [][last'.op = "emitAsyncSequential" =>
           \A i \in DOMAIN last'.calls :
               last'.calls[i].k = "once" => inv[last'.calls[i].w] = 0]_vars

====
